---- MODULE Spec2Model ----
(***************************************************************************)
(* Model of the cross-context message pool (src/globals/message.js): the   *)
(* handler registry with its sparse arrays, the readiness gate, the bound  *)
(* receive listeners, the two transports (window.postMessage and the       *)
(* simulated local delivery) and the ping/pong Synchronization session.    *)
(***************************************************************************)
EXTENDS Integers, Sequences, FiniteSets, TLC

\* ------------------------------------------------------------------ bounds
MaxLen == 3        \* longest handler array (holes included) an API call may grow
MaxSlots == 2      \* the same, in the specification of the whole API
MaxQueue == 2      \* messages in flight towards one window
MaxBind == 2       \* listeners ready() may bind on one window
MaxInFlight == 1   \* messages already queued when an outside party posts another
MaxPings == 4      \* the ping counter saturates here

\* --------------------------------------------------------------- constants
evPing == "evPing"
evPong == "evPong"
Greet == "greet"
Names == {evPing, evPong, Greet}

Pools == {"A", "B"}          \* one cMessagePool per execution context
NoWindow == "nowindow"       \* a target that resolves to the null window
External == "ext"            \* a sender outside the model

Hole == "hole"               \* an array slot emptied by `delete list[i]`
Undefined == "undefined"     \* JavaScript undefined (an omitted argument)
Null == "null"               \* JavaScript null
TimerId == "timer"           \* the handle setTimeout returned last

\* Handlers: the pool's bound onPing, a session's bound onPong, two opaque
\* application handlers, and application handlers that cancel the session,
\* throw, or register a one-shot handler for the name being dispatched.
OnPingH == "onPing"
OnPongH == "onPong"
CancelH == "hCancel"
ThrowH == "hThrow"           \* an application handler that throws
RegH == "hReg"               \* an application handler that calls registerOnce(name, g)
GH == "g"                    \* the handler hReg registers
AppHandlers == {"h1", "h2"}
Handlers == {OnPingH, OnPongH, CancelH} \cup AppHandlers

\* ------------------------------------------------------------------- state
VARIABLES
  bSimulated,      \* platform.postMessage is undefined: postMessage delivers locally
  oMessages,       \* [pool -> [name -> array]] persistent handlers
  oMessagesOnce,   \* [pool -> [name -> array]] one-shot handlers
  bReady,          \* [pool -> BOOLEAN]
  nBound,          \* [pool -> number of listeners bound to the window's message event]
  inbox,           \* [pool -> messages posted to the pool's window, not yet dispatched]
  aExcludeLog,     \* [pool -> names kept out of the log]
  sCreated,        \* [pool -> the pool's Synchronization has been constructed]
  oTarget,         \* [pool -> the session's target]
  iSync,           \* [pool -> the session's timer handle, Null or TimerId]
  timer,           \* [pool -> the timer of that handle is still pending]
  nPings,          \* [pool -> pings the session has sent (saturating)]
  nCallback,       \* [pool -> times the session's fnCallback has run (saturating)]
  cancelled,       \* [pool -> cancel() has been called on the session]
  resolved,        \* [pool -> the session's onPong has run]
  cbAfterCancel,   \* [pool -> fnCallback ran after cancel() had been called]
  pingAfterCancel, \* [pool -> a ping was sent after cancel() had been called]
  pingAfterPong,   \* [pool -> a ping was sent after onPong had run]
  lastMsg,         \* [pool -> the message event the last step dispatched on the window]
  lastRecv,        \* [pool -> the names recv was called with during the last step]
  lastCalls,       \* [pool -> the handler calls made during the last step]
  lastSent,        \* [pool -> what the pool handed to the transport during the last step]
  lastLog,         \* [pool -> what the pool passed to fnLog during the last step]
  lastThrown,      \* [pool -> the exceptions that left the pool's code during the last step]
  lastCall,        \* [pool -> the API call the application made in the last step]
  lastResult,      \* [pool -> what that call returned]
  nIntervals       \* [pool -> retry intervals elapsed since the session's creation (saturating)]

vars == <<bSimulated, oMessages, oMessagesOnce, bReady, nBound, inbox, sCreated,
          oTarget, iSync, timer, nPings, nCallback, cancelled, resolved,
          cbAfterCancel, pingAfterCancel, pingAfterPong,
          lastMsg, lastRecv, lastCalls, lastSent, aExcludeLog, lastLog,
          lastThrown, lastCall, lastResult, nIntervals>>

NoMsg == [data |-> <<>>, source |-> External]
NoExc == "none"              \* no exception is propagating
NoCall == [op |-> "none", args |-> <<>>]   \* the last step was no call of the API
NoResult == "noresult"       \* the last step was no call that returns a value

\* The state as one record, the per-step traces emptied: what an operation starts from.
World ==
  [oMessages |-> oMessages, oMessagesOnce |-> oMessagesOnce, bReady |-> bReady,
   nBound |-> nBound, inbox |-> inbox, sCreated |-> sCreated, oTarget |-> oTarget,
   iSync |-> iSync, timer |-> timer, nPings |-> nPings, nCallback |-> nCallback,
   cancelled |-> cancelled, resolved |-> resolved, cbAfterCancel |-> cbAfterCancel,
   pingAfterCancel |-> pingAfterCancel, pingAfterPong |-> pingAfterPong,
   lastMsg |-> [p \in Pools |-> NoMsg],
   lastRecv |-> [p \in Pools |-> <<>>],
   lastCalls |-> [p \in Pools |-> <<>>],
   lastSent |-> [p \in Pools |-> <<>>],
   aExcludeLog |-> aExcludeLog,
   lastLog |-> [p \in Pools |-> <<>>],
   lastThrown |-> [p \in Pools |-> <<>>],
   lastCall |-> [p \in Pools |-> NoCall],
   lastResult |-> [p \in Pools |-> NoResult],
   nIntervals |-> nIntervals,
   exc |-> NoExc]

Becomes(w) ==
  /\ oMessages' = w.oMessages
  /\ oMessagesOnce' = w.oMessagesOnce
  /\ bReady' = w.bReady
  /\ nBound' = w.nBound
  /\ inbox' = w.inbox
  /\ sCreated' = w.sCreated
  /\ oTarget' = w.oTarget
  /\ iSync' = w.iSync
  /\ timer' = w.timer
  /\ nPings' = w.nPings
  /\ nCallback' = w.nCallback
  /\ cancelled' = w.cancelled
  /\ resolved' = w.resolved
  /\ cbAfterCancel' = w.cbAfterCancel
  /\ pingAfterCancel' = w.pingAfterCancel
  /\ pingAfterPong' = w.pingAfterPong
  /\ lastMsg' = w.lastMsg
  /\ lastRecv' = w.lastRecv
  /\ lastCalls' = w.lastCalls
  /\ lastSent' = w.lastSent
  /\ aExcludeLog' = w.aExcludeLog
  /\ lastLog' = w.lastLog
  /\ lastThrown' = w.lastThrown
  /\ lastCall' = w.lastCall
  /\ lastResult' = w.lastResult
  /\ nIntervals' = w.nIntervals
  /\ UNCHANGED bSimulated

\* ------------------------------------------------------- objects and arrays
Put(f, k, v) == [x \in (DOMAIN f) \cup {k} |-> IF x = k THEN v ELSE f[x]]
Del(f, k) == [x \in (DOMAIN f) \ {k} |-> f[x]]
EmptyObject == [x \in {} |-> <<>>]

\* Array.prototype.indexOf / lastIndexOf: 0-based, -1 when absent; holes never match.
indexOf(list, h) ==
  IF \E i \in 1..Len(list) : list[i] = h
  THEN (CHOOSE i \in 1..Len(list) : list[i] = h /\ \A j \in 1..(i - 1) : list[j] # h) - 1
  ELSE -1

lastIndexOf(list, h) ==
  IF \E i \in 1..Len(list) : list[i] = h
  THEN (CHOOSE i \in 1..Len(list) : list[i] = h /\ \A j \in (i + 1)..Len(list) : list[j] # h) - 1
  ELSE -1

Inc(n, max) == IF n < max THEN n + 1 ELSE n

\* ------------------------------------------------------------------- codec
\* The wire string of an array: its elements between brackets, undefined encoded as null.
JSONStringify(a) ==
  <<"[">> \o [i \in 1..Len(a) |-> IF a[i] = Undefined THEN Null ELSE a[i]] \o <<"]">>

WellFormed(s) == Len(s) >= 2 /\ s[1] = "[" /\ s[Len(s)] = "]"

JSONParse(s) == SubSeq(s, 2, Len(s) - 1)

\* --------------------------------------------------------------------- log
defaultExcludeList == <<evPing, evPong>>

\* fnLog.apply(null, aMessage): the first argument is '[name]: ' + sPrefix +
\* sMessage + (' :' when arguments follow), kept here in its parts.
logLine(w, p, sPrefix, sMessage, args) ==
  [w EXCEPT !.lastLog[p] = Append(@, [prefix |-> sPrefix, name |-> sMessage,
                                      colon |-> args # <<>>, args |-> args])]

messageLog(w, p, aMessage, sPrefix) ==
  IF aMessage = <<>>
  THEN w
  ELSE IF indexOf(w.aExcludeLog[p], aMessage[1]) < 0
       THEN logLine(w, p, sPrefix, aMessage[1], Tail(aMessage))
       ELSE w

\* ---------------------------------------------------------------- registry
\* Mutant of register: the handler is pushed without the indexOf test.
registerAlwaysPush(w, p, sMessage, fnHandler) ==
  IF sMessage \notin DOMAIN w.oMessages[p]
  THEN [w EXCEPT !.oMessages[p] = Put(@, sMessage, <<fnHandler>>)]
  ELSE [w EXCEPT !.oMessages[p][sMessage] = Append(@, fnHandler)]

register(w, p, sMessage, fnHandler) ==
  IF sMessage \notin DOMAIN w.oMessages[p]
  THEN [w EXCEPT !.oMessages[p] = Put(@, sMessage, <<fnHandler>>)]
  ELSE IF indexOf(w.oMessages[p][sMessage], fnHandler) < 0
       THEN [w EXCEPT !.oMessages[p][sMessage] = Append(@, fnHandler)]
       ELSE w

\* Mutant of registerOnce: a new handler is put in front of the array.
registerOnceUnshift(w, p, sMessage, fnHandler) ==
  IF sMessage \notin DOMAIN w.oMessagesOnce[p]
  THEN [w EXCEPT !.oMessagesOnce[p] = Put(@, sMessage, <<fnHandler>>)]
  ELSE IF indexOf(w.oMessagesOnce[p][sMessage], fnHandler) < 0
       THEN [w EXCEPT !.oMessagesOnce[p][sMessage] = <<fnHandler>> \o @]
       ELSE w

registerOnce(w, p, sMessage, fnHandler) ==
  IF sMessage \notin DOMAIN w.oMessagesOnce[p]
  THEN [w EXCEPT !.oMessagesOnce[p] = Put(@, sMessage, <<fnHandler>>)]
  ELSE IF indexOf(w.oMessagesOnce[p][sMessage], fnHandler) < 0
       THEN [w EXCEPT !.oMessagesOnce[p][sMessage] = Append(@, fnHandler)]
       ELSE w

\* One of the two blocks of unregister, on one handler table.
unregisterFrom(table, sMessage, fnHandler) ==
  IF sMessage \in DOMAIN table
  THEN IF fnHandler = Undefined
       THEN [table |-> Del(table, sMessage), bResult |-> TRUE]
       ELSE LET i == lastIndexOf(table[sMessage], fnHandler)
            IN IF i >= 0
               THEN [table |-> [table EXCEPT ![sMessage][i + 1] = Hole], bResult |-> TRUE]
               ELSE [table |-> table, bResult |-> FALSE]
  ELSE [table |-> table, bResult |-> FALSE]

unregisterResult(w, p, sMessage, fnHandler) ==
  \/ unregisterFrom(w.oMessages[p], sMessage, fnHandler).bResult
  \/ unregisterFrom(w.oMessagesOnce[p], sMessage, fnHandler).bResult

unregister(w, p, sMessage, fnHandler) ==
  [w EXCEPT !.oMessages[p] = unregisterFrom(@, sMessage, fnHandler).table,
            !.oMessagesOnce[p] = unregisterFrom(@, sMessage, fnHandler).table]

\* --------------------------------------------------------------------- has
\* Mutant of has: both operands of || are evaluated.
hasBothOperands(w, p, sMessage) ==
  IF sMessage \notin DOMAIN w.oMessages[p]
  THEN "false"
  ELSE IF sMessage \notin DOMAIN w.oMessagesOnce[p]
       THEN "TypeError"
       ELSE IF Len(w.oMessages[p][sMessage]) > 0 THEN "true"
            ELSE IF Len(w.oMessagesOnce[p][sMessage]) > 0 THEN "true" ELSE "false"

\* What has(sMessage) returns, or the error it throws: the right operand of ||
\* (the read of .length of a missing property) is evaluated only when the left
\* one is false.
has(w, p, sMessage) ==
  IF sMessage \notin DOMAIN w.oMessages[p]
  THEN "false"
  ELSE IF Len(w.oMessages[p][sMessage]) > 0
       THEN "true"
       ELSE IF sMessage \notin DOMAIN w.oMessagesOnce[p]
            THEN "TypeError"
            ELSE IF Len(w.oMessagesOnce[p][sMessage]) > 0 THEN "true" ELSE "false"

\* -------------------------------------------------------------- excludeLog
RECURSIVE pushAll(_, _, _)
pushAll(list, args, i) ==
  IF i > Len(args) THEN list ELSE pushAll(Append(list, args[i]), args, i + 1)

\* Mutant of excludeLog: the names are pushed without the indexOf test.
excludeLogPushAll(w, p, bReset, args) ==
  [w EXCEPT !.aExcludeLog[p] = pushAll(IF bReset THEN defaultExcludeList ELSE @, args, 1)]

RECURSIVE pushNew(_, _, _)
pushNew(list, args, i) ==
  IF i > Len(args)
  THEN list
  ELSE pushNew(IF indexOf(list, args[i]) < 0 THEN Append(list, args[i]) ELSE list, args, i + 1)

excludeLog(w, p, bReset, args) ==
  [w EXCEPT !.aExcludeLog[p] = pushNew(IF bReset THEN defaultExcludeList ELSE @, args, 1)]

\* ------------------------------------------------------------------- ready
ready(w, p, b) ==
  IF w.bReady[p] # b
  THEN IF b
       THEN [w EXCEPT !.bReady[p] = b, !.nBound[p] = @ + 1]
       ELSE [w EXCEPT !.bReady[p] = b]
  ELSE w

\* ----------------------------------------------------------------- session
clearTimeout(w, p) ==
  IF w.iSync[p] # Null THEN [w EXCEPT !.timer[p] = FALSE] ELSE w

cancel(w, p) ==
  LET w0 == [w EXCEPT !.cancelled[p] = TRUE]
  IN IF w0.iSync[p] # Null
     THEN [unregister(clearTimeout(w0, p), p, evPong, OnPongH) EXCEPT !.iSync[p] = Null]
     ELSE w0

fnCallback(w, p) ==
  [w EXCEPT !.nCallback[p] = Inc(@, 2),
            !.cbAfterCancel[p] = @ \/ w.cancelled[p]]

onPong(w, p) ==
  fnCallback([clearTimeout(w, p) EXCEPT !.resolved[p] = TRUE], p)

\* -------------------------------------------------------------- exceptions
throw(w, error) == [w EXCEPT !.exc = error]

\* An exception nobody caught leaves the pool's code: through the listener the
\* event loop called, or as the rejection of the async function's promise.
escapes(w, p, where) ==
  IF w.exc = NoExc
  THEN w
  ELSE [w EXCEPT !.lastThrown[p] = Append(@, [error |-> w.exc, where |-> where]),
                 !.exc = NoExc]

\* ------------------------------------------------- dispatch and transports
RECURSIVE onMessage(_, _, _), recv(_, _, _), callList(_, _, _, _, _, _),
          invoke(_, _, _), postMessage(_, _, _, _), post(_, _, _)

\* The module-level postMessage: the window's own when the platform has one,
\* else the body of the async function, which runs at once inside the call.
postMessage(w, p, oWindow, sMessage) ==
  LET w1 == [w EXCEPT !.lastSent[p] = Append(@, [to |-> IF bSimulated THEN p ELSE oWindow,
                                                 data |-> sMessage])]
  IN IF bSimulated
     THEN escapes(onMessage(w1, p, sMessage), p, "promise")
     ELSE [w1 EXCEPT !.inbox[oWindow] = Append(@, [data |-> sMessage, source |-> p])]

post(w, p, aMessage) == postMessage(w, p, p, JSONStringify(aMessage))

\* Mutant of send: the message is handed to the transport whatever the window.
sendAnyway(w, p, target, aMessage) ==
  postMessage(w, p, IF target = NoWindow THEN p ELSE target, JSONStringify(aMessage))

send(w, p, target, aMessage) ==
  IF target = NoWindow
  THEN messageLog(w, p, aMessage, "DROP ")
  ELSE postMessage(w, p, target, JSONStringify(aMessage))

onPing(w, p) == post(w, p, <<evPong>>)

\* What calling a handler does, after the call is put on record.
invoke(w, p, c) ==
  LET w1 == [w EXCEPT !.lastCalls[p] = Append(@, c)]
  IN CASE c.h = OnPingH -> onPing(w1, p)
       [] c.h = OnPongH -> onPong(w1, p)
       [] c.h = CancelH -> IF w1.sCreated[p] THEN cancel(w1, p) ELSE w1
       [] c.h = ThrowH -> throw(w1, "Error")
       [] c.h = RegH -> registerOnce(w1, p, c.name, GH)
       [] OTHER -> w1

\* for (let i in list) if (list.hasOwnProperty(i)) list[i | 0].apply(null, aMessage)
callList(w, p, list, i, sMessage, aMessage) ==
  IF i > Len(list) \/ w.exc # NoExc
  THEN w
  ELSE IF list[i] = Hole
       THEN callList(w, p, list, i + 1, sMessage, aMessage)
       ELSE callList(invoke(w, p, [h |-> list[i], name |-> sMessage.name, args |-> aMessage,
                                   kind |-> sMessage.kind, d |-> sMessage.d,
                                   ready |-> w.bReady[p]]),
                     p, list, i + 1, sMessage, aMessage)

\* Mutant of recv: the one-shot array is called but not deleted from the table.
recvKeepOnce(w, p, aCall) ==
  LET sMessage == aCall[1]
      aMessage == Tail(aCall)
      wl == IF indexOf(w.aExcludeLog[p], sMessage) < 0
            THEN logLine(w, p, "", sMessage, aMessage)
            ELSE w
      w0 == [wl EXCEPT !.lastRecv[p] = Append(@, sMessage)]
      d == Len(w0.lastRecv[p])
      w1 == IF sMessage \in DOMAIN w0.oMessages[p]
            THEN callList(w0, p, w0.oMessages[p][sMessage], 1,
                          [name |-> sMessage, kind |-> "persistent", d |-> d], aMessage)
            ELSE w0
  IN IF sMessage \in DOMAIN w1.oMessagesOnce[p] /\ w1.exc = NoExc
     THEN callList(w1, p, w1.oMessagesOnce[p][sMessage], 1,
                   [name |-> sMessage, kind |-> "once", d |-> d], aMessage)
     ELSE w1

recv(w, p, aCall) ==
  LET sMessage == aCall[1]
      aMessage == Tail(aCall)
      wl == IF indexOf(w.aExcludeLog[p], sMessage) < 0
            THEN logLine(w, p, "", sMessage, aMessage)
            ELSE w
      w0 == [wl EXCEPT !.lastRecv[p] = Append(@, sMessage)]
      d == Len(w0.lastRecv[p])
      w1 == IF sMessage \in DOMAIN w0.oMessages[p]
            THEN callList(w0, p, w0.oMessages[p][sMessage], 1,
                          [name |-> sMessage, kind |-> "persistent", d |-> d], aMessage)
            ELSE w0
  IN IF sMessage \in DOMAIN w1.oMessagesOnce[p] /\ w1.exc = NoExc
     THEN callList([w1 EXCEPT !.oMessagesOnce[p] = Del(@, sMessage)], p,
                   w1.oMessagesOnce[p][sMessage], 1,
                   [name |-> sMessage, kind |-> "once", d |-> d], aMessage)
     ELSE w1

\* Mutant of onMessage: the message is dispatched whatever the readiness flag.
onMessageNoGate(w, p, data) ==
  IF ~WellFormed(data) THEN throw(w, "SyntaxError") ELSE recv(w, p, JSONParse(data))

onMessage(w, p, data) ==
  IF ~WellFormed(data)
  THEN throw(w, "SyntaxError")
  ELSE LET aMessage == JSONParse(data)
       IN IF w.bReady[p] # TRUE
          THEN messageLog(w, p, aMessage, "SKIP ")
          ELSE recv(w, p, aMessage)

\* The window's message event: every bound listener runs onMessage.
RECURSIVE fireListeners(_, _, _, _)
fireListeners(w, p, data, n) ==
  IF n = 0
  THEN w
  ELSE fireListeners(escapes(onMessage(w, p, data), p, "listener"), p, data, n - 1)

onSync(w, p) ==
  LET w0 == [w EXCEPT !.nPings[p] = Inc(@, MaxPings),
                      !.pingAfterCancel[p] = @ \/ w.cancelled[p],
                      !.pingAfterPong[p] = @ \/ w.resolved[p]]
      w1 == send(w0, p, w0.oTarget[p], <<evPing>>)
  IN [w1 EXCEPT !.iSync[p] = TimerId, !.timer[p] = TRUE]

\* Mutant of the constructor: onPong is registered as a persistent handler.
SynchronizationPersistent(w, p, target) ==
  LET w0 == [w EXCEPT !.oTarget[p] = target, !.iSync[p] = Null]
      w1 == onSync(register(w0, p, evPong, OnPongH), p)
  IN [w1 EXCEPT !.sCreated[p] = TRUE]

\* Mutant of the constructor: the timer is armed but the first ping is left to it.
SynchronizationArmOnly(w, p, target) ==
  LET w0 == [w EXCEPT !.oTarget[p] = target, !.iSync[p] = Null]
      w1 == [registerOnce(w0, p, evPong, OnPongH) EXCEPT !.iSync[p] = TimerId, !.timer[p] = TRUE]
  IN [w1 EXCEPT !.sCreated[p] = TRUE]

Synchronization(w, p, target) ==
  LET w0 == [w EXCEPT !.oTarget[p] = target, !.iSync[p] = Null]
      w1 == onSync(registerOnce(w0, p, evPong, OnPongH), p)
  IN [w1 EXCEPT !.sCreated[p] = TRUE]

\* ------------------------------------------------------------------- Init
Init ==
  /\ bSimulated \in BOOLEAN
  /\ oMessages = [p \in Pools |-> Put(EmptyObject, evPing, <<OnPingH>>)]
  /\ oMessagesOnce = [p \in Pools |-> EmptyObject]
  /\ bReady = [p \in Pools |-> FALSE]
  /\ nBound = [p \in Pools |-> 0]
  /\ inbox = [p \in Pools |-> <<>>]
  /\ sCreated = [p \in Pools |-> FALSE]
  /\ oTarget = [p \in Pools |-> NoWindow]
  /\ iSync = [p \in Pools |-> Null]
  /\ timer = [p \in Pools |-> FALSE]
  /\ nPings = [p \in Pools |-> 0]
  /\ nCallback = [p \in Pools |-> 0]
  /\ cancelled = [p \in Pools |-> FALSE]
  /\ resolved = [p \in Pools |-> FALSE]
  /\ cbAfterCancel = [p \in Pools |-> FALSE]
  /\ pingAfterCancel = [p \in Pools |-> FALSE]
  /\ pingAfterPong = [p \in Pools |-> FALSE]
  /\ lastMsg = [p \in Pools |-> NoMsg]
  /\ lastRecv = [p \in Pools |-> <<>>]
  /\ lastCalls = [p \in Pools |-> <<>>]
  /\ lastSent = [p \in Pools |-> <<>>]
  /\ aExcludeLog = [p \in Pools |-> defaultExcludeList]
  /\ lastLog = [p \in Pools |-> <<>>]
  /\ lastThrown = [p \in Pools |-> <<>>]
  /\ lastCall = [p \in Pools |-> NoCall]
  /\ lastResult = [p \in Pools |-> NoResult]
  /\ nIntervals = [p \in Pools |-> 0]

\* ---------------------------------------------------------------- actions
\* A step is possible only if it keeps the model inside its bounds.
InBounds(w) ==
  /\ \A p \in Pools : Len(w.inbox[p]) <= MaxQueue /\ w.nBound[p] <= MaxBind
  /\ \A p \in Pools : \A n \in DOMAIN w.oMessages[p] : Len(w.oMessages[p][n]) <= MaxLen
  /\ \A p \in Pools : \A n \in DOMAIN w.oMessagesOnce[p] : Len(w.oMessagesOnce[p][n]) <= MaxLen

Register(p, n, h) ==
  \E w \in {register(World, p, n, h)} :
     InBounds(w) /\ Becomes(w)

RegisterOnce(p, n, h) ==
  \E w \in {registerOnce(World, p, n, h)} :
     InBounds(w) /\ Becomes(w)

Unregister(p, n, h) ==
  \E w \in {[unregister(World, p, n, h) EXCEPT
                !.lastCall[p] = [op |-> "unregister", args |-> <<n, h>>],
                !.lastResult[p] = IF unregisterResult(World, p, n, h) THEN "true" ELSE "false"]} :
     Becomes(w)

Ready(p, b) ==
  \E w \in {ready(World, p, b)} :
     InBounds(w) /\ Becomes(w)

\* A party outside the model posts a message to the pool's window.
Inject(p, a) ==
  /\ ~bSimulated
  /\ Len(inbox[p]) < MaxInFlight
  /\ \E w \in {[World EXCEPT !.inbox[p] = Append(@, [data |-> JSONStringify(a),
                                                      source |-> External])]} :
        Becomes(w)

\* The application posts a message to its own pool (the one way in for a
\* message when the transport is the simulated one).
Post(p, a) ==
  /\ bSimulated
  /\ \E w \in {post(World, p, a)} :
        InBounds(w) /\ Becomes(w)

\* The event loop dispatches the oldest message event of the window.
Deliver(p) ==
  /\ inbox[p] # <<>>
  /\ LET m == Head(inbox[p])
         w0 == [World EXCEPT !.inbox[p] = Tail(@), !.lastMsg[p] = m]
     IN \E w \in {fireListeners(w0, p, m.data, nBound[p])} :
           InBounds(w) /\ Becomes(w)

Messages == {<<evPing>>, <<Greet, "world">>}

\* No handler array of the pool is longer than MaxSlots.
SmallArrays(p) ==
  /\ \A n \in DOMAIN oMessages[p] : Len(oMessages[p][n]) <= MaxSlots
  /\ \A n \in DOMAIN oMessagesOnce[p] : Len(oMessagesOnce[p][n]) <= MaxSlots

\* The pool of one context under its public API and inbound traffic.
Next ==
  \/ \E h \in AppHandlers : Register("A", Greet, h) /\ SmallArrays("A")'
  \/ \E h \in AppHandlers : RegisterOnce("A", Greet, h) /\ SmallArrays("A")'
  \/ \E h \in AppHandlers \cup {Undefined} : Unregister("A", Greet, h)
  \/ Unregister("A", evPing, Undefined)
  \/ \E b \in BOOLEAN : Ready("A", b)
  \/ \E a \in Messages : Inject("A", a)
  \/ \E a \in Messages : Post("A", a)
  \/ Deliver("A")

Spec == Init /\ [][Next]_vars

\* ------------------------------------------- the synchronization protocol
\* synchronize(oTarget, fnCallback): the pool's session is constructed.
Synchronize(p, target) ==
  /\ ~sCreated[p]
  /\ \E w \in {Synchronization(World, p, target)} :
        InBounds(w) /\ Becomes(w)

\* The retry timer fires: evSync runs onSync.
OnSyncTimer(p) ==
  /\ timer[p]
  /\ \E w \in {onSync([World EXCEPT !.timer[p] = FALSE, !.nIntervals[p] = Inc(@, MaxPings)], p)} :
        InBounds(w) /\ Becomes(w)

\* The application calls cancel() on the session it holds.
Cancel(p) ==
  /\ sCreated[p]
  /\ \E w \in {cancel(World, p)} : Becomes(w)

\* Two contexts: A runs a session, B answers; the application of A may hold a
\* handler that cancels the session, and pongs may reach A from outside.
SyncNext ==
  \/ \E p \in Pools, b \in BOOLEAN : Ready(p, b)
  \/ \E t \in {"B", NoWindow} : Synchronize("A", t)
  \/ OnSyncTimer("A")
  \/ Cancel("A")
  \/ \E p \in Pools : Deliver(p)
  \/ Inject("A", <<evPong>>)
  \/ Register("A", evPong, CancelH)
  \/ RegisterOnce("A", evPong, CancelH)
  \/ Unregister("A", evPong, Undefined)

SyncSpec == Init /\ [][SyncNext]_vars

\* The protocol alone, with the scheduling the platform gives: a queued message
\* event is dispatched and a pending timer fires.
LiveNext ==
  \/ \E p \in Pools : Ready(p, TRUE)
  \/ Synchronize("A", "B")
  \/ OnSyncTimer("A")
  \/ \E p \in Pools : Deliver(p)

LiveSpec ==
  /\ Init
  /\ [][LiveNext]_vars
  /\ WF_vars(Deliver("A"))
  /\ WF_vars(Deliver("B"))
  /\ SF_vars(OnSyncTimer("A"))

\* --------------------------------------------------- the order of dispatch
\* The registry of one context with arrays long enough to hold a hole between
\* handlers and a handler registered again behind them.
OrderNext ==
  \/ \E h \in AppHandlers : Register("A", Greet, h)
  \/ \E h \in AppHandlers : RegisterOnce("A", Greet, h)
  \/ \E h \in AppHandlers : Unregister("A", Greet, h)
  \/ \E b \in BOOLEAN : Ready("A", b)
  \/ Inject("A", <<Greet, "world">>)
  \/ Post("A", <<Greet, "world">>)
  \/ Deliver("A")

OrderSpec == Init /\ [][OrderNext]_vars

\* ------------------------------------------------- the rest of the pool's API
Send(p, target, a) ==
  \E w \in {[send(World, p, target, a) EXCEPT !.lastCall[p] = [op |-> "send", args |-> <<target, a>>]]} :
     InBounds(w) /\ Becomes(w)

ExcludeLog(p, bReset, args) ==
  \E w \in {[excludeLog(World, p, bReset, args) EXCEPT
                !.lastCall[p] = [op |-> "excludeLog", args |-> <<bReset, args>>]]} :
     Becomes(w)

Has(p, n) ==
  \E w \in {[World EXCEPT !.lastCall[p] = [op |-> "has", args |-> <<n>>],
                           !.lastResult[p] = has(World, p, n)]} :
     Becomes(w)

LogNames == {evPing, Greet}
ArgLists == {<<>>} \cup {<<n>> : n \in LogNames} \cup {<<n, Greet>> : n \in LogNames}

\* The pool of one context under the calls that send, query and configure.
ApiNext ==
  \/ Register("A", Greet, "h1")
  \/ RegisterOnce("A", Greet, "h1")
  \/ Unregister("A", Greet, "h1")
  \/ \E b \in BOOLEAN : Ready("A", b)
  \/ \E t \in {NoWindow, "A"}, a \in Messages :
        /\ IF t = NoWindow THEN TRUE ELSE Len(inbox[t]) < MaxInFlight
        /\ Send("A", t, a)
  \/ \E b \in BOOLEAN, args \in ArgLists : ExcludeLog("A", b, args)
  \/ \E n \in Names : Has("A", n)
  \/ Deliver("A")

ApiSpec == Init /\ [][ApiNext]_vars

\* ------------------------------------------- handlers that throw or register
\* A party outside the model posts a string, a JSON text or not, to the window.
InjectRaw(p, data) ==
  /\ ~bSimulated
  /\ Len(inbox[p]) < MaxInFlight
  /\ \E w \in {[World EXCEPT !.inbox[p] = Append(@, [data |-> data, source |-> External])]} :
        Becomes(w)

Malformed == <<"{">>
Wires == {JSONStringify(<<Greet, "world">>), Malformed}
EffectHandlers == {ThrowH, RegH, "h1"}

\* The pool of one context whose application registers handlers that throw or
\* that register a one-shot handler, and whose window receives any string.
HandlerNext ==
  \/ \E h \in EffectHandlers : Register("A", Greet, h)
  \/ \E h \in EffectHandlers : RegisterOnce("A", Greet, h)
  \/ Unregister("A", Greet, Undefined)
  \/ \E b \in BOOLEAN : Ready("A", b)
  \/ \E data \in Wires : InjectRaw("A", data)
  \/ Post("A", <<Greet, "world">>)
  \/ Deliver("A")

HandlerSpec == Init /\ [][HandlerNext]_vars

\* ------------------------------------------------------------ observations
PingWire == JSONStringify(<<evPing>>)
PongWire == JSONStringify(<<evPong>>)

\* The handlers in the slots of table[n] (none when the table has no such key).
Slots(table, n) ==
  IF n \in DOMAIN table
  THEN {table[n][i] : i \in 1..Len(table[n])} \ {Hole}
  ELSE {}

\* The calls, among those a step made, to handler h for name n, of one kind.
CallsIn(calls, h, n, kind) ==
  {i \in 1..Len(calls) : calls[i].h = h /\ calls[i].name = n /\ calls[i].kind = kind}

CallsOf(p, h, n, kind) == CallsIn(lastCalls[p], h, n, kind)

Elems(seq) == {seq[i] : i \in 1..Len(seq)}

Dispatched(p) == Elems(lastRecv[p])

PongsSent(p) == {i \in 1..Len(lastSent[p]) : lastSent[p][i].data = PongWire}

\* The step dispatched a message event on p's window while p was ready.
DeliveredWhileReady(p) == lastMsg[p] # NoMsg /\ bReady[p] = TRUE /\ nBound[p] > 0

\* ------------------------------------------------------------------ claims

\* C1: while the readiness flag is not true no handler (persistent, one-shot or
\* the built-in ping handler) is called by an inbound message; a message event
\* dispatched while the flag is true calls every handler registered for its name.
C1_ReadinessGate ==
  [][\A p \in Pools :
       /\ \A i \in 1..Len(lastCalls'[p]) : lastCalls'[p][i].ready = TRUE
       /\ (bReady'[p] # TRUE => lastCalls'[p] = <<>> /\ lastRecv'[p] = <<>>)
       /\ (lastMsg'[p] # NoMsg /\ bReady[p] = TRUE /\ nBound[p] > 0 =>
             LET a == JSONParse(lastMsg'[p].data)
             IN /\ \A h \in Slots(oMessages[p], a[1]) :
                     \E i \in CallsIn(lastCalls'[p], h, a[1], "persistent") :
                        lastCalls'[p][i].args = Tail(a)
                /\ \A h \in Slots(oMessagesOnce[p], a[1]) :
                     \E i \in CallsIn(lastCalls'[p], h, a[1], "once") :
                        lastCalls'[p][i].args = Tail(a))]_vars

\* C1 witness: a listener is bound, the flag is false again, a message for a
\* name with registered handlers was dispatched on the window, was logged as
\* skipped and nothing ran.
C1_Witness ==
  /\ lastMsg["A"].data = JSONStringify(<<Greet, "world">>)
  /\ bReady["A"] = FALSE
  /\ nBound["A"] > 0
  /\ Slots(oMessages["A"], Greet) # {}
  /\ Slots(oMessagesOnce["A"], Greet) # {}
  /\ lastCalls["A"] = <<>>
  /\ \E i \in 1..Len(lastLog["A"]) : lastLog["A"][i].prefix = "SKIP "

\* C7: every ping delivered to a ready pool makes the pool emit exactly one pong,
\* after any sequence of register/unregister/ready calls.
C7_OnePongPerPing ==
  \A p \in Pools :
    (DeliveredWhileReady(p) /\ lastMsg[p].data = PingWire) => Cardinality(PongsSent(p)) = 1

\* C8: for a ready pool, after any sequence of ready calls, one inbound wire
\* message [n, args...] calls every persistent handler of n exactly once with args.
C8_EachHandlerOnce ==
  \A p \in Pools :
    DeliveredWhileReady(p) =>
      LET a == JSONParse(lastMsg[p].data)
      IN \A h \in Slots(oMessages[p], a[1]) \cap AppHandlers :
           /\ Cardinality(CallsOf(p, h, a[1], "persistent")) = 1
           /\ \A i \in CallsOf(p, h, a[1], "persistent") : lastCalls[p][i].args = Tail(a)

\* C9: a handler reference occupies at most one slot of the persistent array and
\* at most one slot of the one-shot array of a name, and every dispatch of the name
\* calls each handler of the persistent array exactly once.
C9_UniqueSlots ==
  \A p \in Pools :
    /\ \A n \in DOMAIN oMessages[p] : \A h \in Handlers :
         Cardinality({i \in 1..Len(oMessages[p][n]) : oMessages[p][n][i] = h}) <= 1
    /\ \A n \in DOMAIN oMessagesOnce[p] : \A h \in Handlers :
         Cardinality({i \in 1..Len(oMessagesOnce[p][n]) : oMessagesOnce[p][n][i] = h}) <= 1
    /\ \A d \in 1..Len(lastRecv[p]) : \A h \in Handlers :
         LET calls(kind) == {i \in CallsOf(p, h, lastRecv[p][d], kind) : lastCalls[p][i].d = d}
         IN /\ Cardinality(calls("once")) <= 1
            /\ Cardinality(calls("persistent")) =
                 (IF h \in Slots(oMessages[p], lastRecv[p][d]) THEN 1 ELSE 0)

\* C9 witness: h1 was registered, unregistered (leaving a hole) and registered
\* again for greet, in both arrays, and a dispatch of greet has just called it.
C9_Witness ==
  /\ Greet \in DOMAIN oMessages["A"]
  /\ oMessages["A"][Greet] = <<Hole, "h1">>
  /\ CallsOf("A", "h1", Greet, "persistent") # {}
  /\ CallsOf("A", "h1", Greet, "once") # {}

\* C10: a handler registered with registerOnce(n, h) is called as a one-shot
\* handler at most once: only by a dispatch of n, only if it was in the one-shot
\* array of n before that dispatch, and it is out of the array afterwards.
C10_OnceAtMostOnce ==
  [][\A p \in Pools : \A n \in Names : \A h \in Handlers :
       LET calls == CallsIn(lastCalls'[p], h, n, "once")
       IN /\ Cardinality(calls) <= 1
          /\ (calls # {} => h \in Slots(oMessagesOnce[p], n) /\ n \in Elems(lastRecv'[p]))
          /\ (n \notin Elems(lastRecv'[p]) => calls = {})
          /\ (n \in Elems(lastRecv'[p]) /\ h \in Slots(oMessagesOnce[p], n) =>
                calls # {} /\ h \notin Slots(oMessagesOnce'[p], n))]_vars

\* C10 witness: two listeners dispatched the same greet message, the one-shot
\* handler h1 ran in the first dispatch only and is gone from the array.
C10_Witness ==
  /\ Len(lastRecv["A"]) = 2
  /\ lastRecv["A"][1] = Greet /\ lastRecv["A"][2] = Greet
  /\ Cardinality(CallsOf("A", "h1", Greet, "once")) = 1
  /\ "h1" \notin Slots(oMessagesOnce["A"], Greet)

\* C2: once cancel() has been called on a session, the session sends no further
\* ping and its completion callback does not run.
C2_NothingAfterCancel ==
  \A p \in Pools : ~cbAfterCancel[p] /\ ~pingAfterCancel[p]

\* C3: once a session has received pong it holds no pending retry timer and
\* sends no further ping, under either transport.
C3_ResolvedIsQuiet ==
  \A p \in Pools : resolved[p] => ~timer[p] /\ ~pingAfterPong[p]

\* The session's one-shot pong handler is in the pool's table.
AwaitingPong(p) == OnPongH \in Slots(oMessagesOnce[p], evPong)

\* C4: the completion callback runs at most once in the life of a session, and
\* it runs when a pong is dispatched on the pool while the session's one-shot
\* handler is registered (already, or by the constructor in the same step) and
\* the session is not cancelled meanwhile.
C4_CallbackOnce ==
  [][\A p \in Pools :
       /\ nCallback'[p] <= 1
       /\ ((AwaitingPong(p) \/ (~sCreated[p] /\ sCreated'[p]))
             /\ evPong \in Elems(lastRecv'[p]) /\ ~cancelled'[p]
           => nCallback[p] = 0 /\ nCallback'[p] = 1 /\ resolved'[p])]_vars

\* C4 witness: the session was resolved by an earlier pong after at least one
\* retry, and another pong has just been dispatched without calling anything.
C4_Witness ==
  /\ nCallback["A"] = 1
  /\ nPings["A"] >= 2
  /\ evPong \in Dispatched("A")
  /\ lastCalls["A"] = <<>>

\* C5: when ready pool B dispatches a ping that A sent, a pong from B is
\* delivered to A's window.
C5_PongReachesSender ==
  (DeliveredWhileReady("B") /\ lastMsg["B"] = [data |-> PingWire, source |-> "A"])
    => \E i \in 1..Len(inbox["A"]) : inbox["A"][i] = [data |-> PongWire, source |-> "B"]

\* C6: a session of A that targets B resolves eventually, if B (and A, which
\* has to dispatch the answer) is ready from some point on.
C6_EventuallyResolves ==
  (/\ <>(sCreated["A"] /\ oTarget["A"] = "B")
   /\ <>[](bReady["B"] = TRUE)
   /\ <>[](bReady["A"] = TRUE))
    => <>(nCallback["A"] > 0)

\* The calls of dispatch number d of a step, of one kind, to handler h.
CallsAt(calls, d, h, kind) ==
  {i \in 1..Len(calls) : calls[i].d = d /\ calls[i].h = h /\ calls[i].kind = kind}

\* C11: a malformed payload dispatched on the pool's window raises nothing out
\* of the receive callback: it is caught there and reported through the log sink.
C11_MalformedIsCaught ==
  \A p \in Pools :
    (lastMsg[p] # NoMsg /\ ~WellFormed(lastMsg[p].data) /\ nBound[p] > 0)
      => lastThrown[p] = <<>> /\ lastLog[p] # <<>>

\* C12: in a dispatch of n in which a handler throws, every persistent handler
\* of n and every one-shot handler taken for the dispatch is still called.
C12_ThrowDoesNotStopOthers ==
  [][\A p \in Pools :
       (/\ lastRecv'[p] # <<>>
        /\ \E kind \in {"persistent", "once"} : CallsAt(lastCalls'[p], 1, ThrowH, kind) # {})
       => LET n == lastRecv'[p][1]
          IN /\ \A h \in Slots(oMessages[p], n) : CallsAt(lastCalls'[p], 1, h, "persistent") # {}
             /\ \A h \in Slots(oMessagesOnce[p], n) : CallsAt(lastCalls'[p], 1, h, "once") # {}]_vars

\* The step's first dispatch on p called hReg (as a handler of the given kind)
\* while g was not waiting in the one-shot array of the dispatched name.
RegisteredDuring(p, kind) ==
  /\ lastRecv'[p] # <<>>
  /\ CallsAt(lastCalls'[p], 1, RegH, kind) # {}
  /\ GH \notin Slots(oMessagesOnce[p], lastRecv'[p][1])

\* C18: a handler g that a handler, persistent or one-shot, registers with
\* registerOnce(n, g) during a dispatch of n is not called in that dispatch.
C18_NewOnceIsDeferred ==
  [][\A p \in Pools :
       (RegisteredDuring(p, "persistent") \/ RegisteredDuring(p, "once"))
         => CallsAt(lastCalls'[p], 1, GH, "once") = {}]_vars

\* What recv does instead: g registered by a one-shot handler of the dispatch is
\* not called in that dispatch and waits in the one-shot array for the next
\* dispatch of n (which calls it); g registered by a persistent handler is called
\* in the same dispatch, after the one-shot handlers registered before it.
DeferredOnlyFromOnce ==
  [][\A p \in Pools :
       /\ (RegisteredDuring(p, "once") /\ ~RegisteredDuring(p, "persistent"))
            => /\ CallsAt(lastCalls'[p], 1, GH, "once") = {}
               /\ IF Len(lastRecv'[p]) = 1
                  THEN GH \in Slots(oMessagesOnce'[p], lastRecv'[p][1])
                  ELSE lastRecv'[p][2] = lastRecv'[p][1] /\ lastThrown'[p] = <<>>
                         => CallsAt(lastCalls'[p], 2, GH, "once") # {}
       /\ (RegisteredDuring(p, "persistent") /\ lastThrown'[p] = <<>>)
            => \E i \in CallsAt(lastCalls'[p], 1, GH, "once") :
                  \A j \in 1..Len(lastCalls'[p]) :
                     (lastCalls'[p][j].d = 1 /\ j # i) => j < i]_vars

\* The one-shot handler hReg has just run in a dispatch of greet, g was not
\* called and waits in the one-shot array.
DeferredFromOnce ==
  /\ Len(lastRecv["A"]) = 1
  /\ CallsAt(lastCalls["A"], 1, RegH, "once") # {}
  /\ CallsAt(lastCalls["A"], 1, RegH, "persistent") = {}
  /\ CallsAt(lastCalls["A"], 1, GH, "once") = {}
  /\ Slots(oMessagesOnce["A"], Greet) = {GH}

NoDuplicates(list) == \A i, j \in 1..Len(list) : list[i] = list[j] => i = j

\* C13: send to a target that resolves to no window throws nothing, hands nothing
\* to the transport and leaves registry and readiness as they were; all it does
\* is log one DROP line, and only for a name that is not in the exclusion list.
C13_DropOnlyLogs ==
  [][\A p \in Pools :
       (lastCall'[p].op = "send" /\ lastCall'[p].args[1] = NoWindow)
       => LET a == lastCall'[p].args[2]
          IN /\ lastThrown'[p] = <<>>
             /\ lastSent'[p] = <<>> /\ inbox' = inbox
             /\ lastCalls'[p] = <<>> /\ lastRecv'[p] = <<>>
             /\ oMessages' = oMessages /\ oMessagesOnce' = oMessagesOnce
             /\ bReady' = bReady /\ nBound' = nBound /\ aExcludeLog' = aExcludeLog
             /\ lastLog'[p] = IF a[1] \in Elems(aExcludeLog[p])
                              THEN <<>>
                              ELSE <<[prefix |-> "DROP ", name |-> a[1],
                                      colon |-> Len(a) > 1, args |-> Tail(a)]>>]_vars

\* C13 witness: a ready pool with handlers for greet has just sent greet to no
\* window: one DROP line, nothing sent, nothing called.
C13_Witness ==
  /\ lastCall["A"] = [op |-> "send", args |-> <<NoWindow, <<Greet, "world">>>>]
  /\ bReady["A"] = TRUE
  /\ Slots(oMessages["A"], Greet) # {}
  /\ Len(lastLog["A"]) = 1 /\ lastLog["A"][1].prefix = "DROP "
  /\ lastSent["A"] = <<>> /\ lastCalls["A"] = <<>>

\* C16: after excludeLog(true, names...) the exclusion list holds exactly the two
\* control names and the given names; after any excludeLog call it holds both
\* control names and no name twice.
C16_ExcludeList ==
  [][\A p \in Pools :
       lastCall'[p].op = "excludeLog"
       => /\ {evPing, evPong} \subseteq Elems(aExcludeLog'[p])
          /\ NoDuplicates(aExcludeLog'[p])
          /\ (lastCall'[p].args[1]
                => Elems(aExcludeLog'[p]) = {evPing, evPong} \cup Elems(lastCall'[p].args[2]))
          /\ (~lastCall'[p].args[1]
                => Elems(aExcludeLog'[p]) = Elems(aExcludeLog[p]) \cup Elems(lastCall'[p].args[2]))]_vars

\* C16 witness: excludeLog(true, 'evPing', 'greet') has just run: the seed and
\* greet are in the list, evPing once.
C16_Witness ==
  /\ lastCall["A"] = [op |-> "excludeLog", args |-> <<TRUE, <<evPing, Greet>>>>]
  /\ aExcludeLog["A"] = <<evPing, evPong, Greet>>

\* C20: has(name) throws when only a persistent handler, never a one-shot one,
\* was registered for the name.
C20_HasThrows ==
  \A p \in Pools :
    (/\ lastCall[p].op = "has"
     /\ lastCall[p].args[1] \in DOMAIN oMessages[p]
     /\ lastCall[p].args[1] \notin DOMAIN oMessagesOnce[p])
    => lastResult[p] = "TypeError"

\* C20 amended: has(name) throws for no name; it returns true whenever the
\* persistent table has an array for the name (a registered handler, or the
\* holes unregister left), without reading the one-shot table, and false in
\* every other case, registered one-shot handlers included.
C20_HasNeverThrows ==
  \A p \in Pools :
    lastCall[p].op = "has"
    => /\ lastResult[p] # "TypeError"
       /\ lastResult[p] = IF lastCall[p].args[1] \in DOMAIN oMessages[p] THEN "true" ELSE "false"

\* C20 witness: has('greet') has just returned true with a persistent handler
\* registered for greet and no one-shot array for it.
C20_Witness ==
  /\ lastCall["A"] = [op |-> "has", args |-> <<Greet>>]
  /\ Slots(oMessages["A"], Greet) # {}
  /\ Greet \notin DOMAIN oMessagesOnce["A"]
  /\ lastResult["A"] = "true"

\* C14: a session no pong has reached has sent exactly 3 pings once 3 retry
\* intervals have elapsed since its creation, and its callback has not run.
C14_ThreePings ==
  \A p \in Pools :
    (sCreated[p] /\ nIntervals[p] = 3 /\ ~resolved[p])
      => nPings[p] = 3 /\ nCallback[p] = 0

\* C14 amended: such a session has sent exactly 4 pings once 3 retry intervals
\* have elapsed (the ping of the constructor and one for every interval), and
\* one more than the intervals elapsed at any earlier time; its callback has not run.
C14_PingPerIntervalPlusOne ==
  \A p \in Pools :
    (sCreated[p] /\ nIntervals[p] <= 3 /\ ~resolved[p])
      => nPings[p] = nIntervals[p] + 1 /\ nCallback[p] = 0

\* C14 witness: the session of A, neither resolved nor cancelled, after its
\* third retry: four pings sent, the timer armed again.
C14_Witness ==
  /\ sCreated["A"] /\ ~resolved["A"] /\ ~cancelled["A"]
  /\ nIntervals["A"] = 3
  /\ nPings["A"] = 4
  /\ timer["A"]

\* list without its holes
Compact(list) == SelectSeq(list, LAMBDA x : x # Hole)

\* The handlers registered for n in a table, in the order of their slots.
ListOf(table, n) == IF n \in DOMAIN table THEN Compact(table[n]) ELSE <<>>

Position(list, h) == CHOOSE i \in 1..Len(list) : list[i] = h

\* Handlers that stay registered keep their order, and a handler registered by
\* the step stands behind all that were registered before.
OrderKept(old, new) ==
  \A i, j \in 1..Len(new) :
    i < j => IF new[j] \in Elems(old)
             THEN new[i] \in Elems(old) /\ Position(old, new[i]) < Position(old, new[j])
             ELSE TRUE

\* C15: unregister returns true exactly when the call removed at least one
\* registered handler (from either array of any name), and false otherwise.
C15_TrueIffRemoved ==
  [][\A p \in Pools :
       lastCall'[p].op = "unregister"
       => (lastResult'[p] = "true"
             <=> \E n \in Names : \/ Slots(oMessages'[p], n) # Slots(oMessages[p], n)
                                  \/ Slots(oMessagesOnce'[p], n) # Slots(oMessagesOnce[p], n))]_vars

\* C17: the receive callback of a pool is bound at most once, whatever sequence
\* of ready(true) and ready(false) calls is made.
C17_BoundAtMostOnce ==
  \A p \in Pools : nBound[p] <= 1

\* C19: a dispatch of n calls the persistent handlers of n in the order they
\* were registered and then the one-shot handlers in the order they were
\* registered: every step keeps the registered handlers in their order and puts
\* a new one last, holes or not, and every dispatch calls the persistent array
\* and then (the first dispatch of n in the step) the one-shot array in that order.
C19_RegistrationOrder ==
  [][\A p \in Pools : \A n \in Names :
       /\ OrderKept(ListOf(oMessages[p], n), ListOf(oMessages'[p], n))
       /\ \/ OrderKept(ListOf(oMessagesOnce[p], n), ListOf(oMessagesOnce'[p], n))
          \/ n \in Elems(lastRecv'[p])
       /\ \A d \in 1..Len(lastRecv'[p]) :
            lastRecv'[p][d] = n =>
              LET calls == SelectSeq(lastCalls'[p], LAMBDA c : c.d = d)
                  persistent == ListOf(oMessages[p], n)
                  once == IF \E e \in 1..(d - 1) : lastRecv'[p][e] = n
                          THEN <<>>
                          ELSE ListOf(oMessagesOnce[p], n)
              IN /\ Len(calls) = Len(persistent) + Len(once)
                 /\ \A i \in 1..Len(persistent) :
                      calls[i].h = persistent[i] /\ calls[i].kind = "persistent"
                 /\ \A i \in 1..Len(once) :
                      /\ calls[Len(persistent) + i].h = once[i]
                      /\ calls[Len(persistent) + i].kind = "once"]_vars

\* C19 witness: h1 was unregistered from the head of both arrays of greet and
\* registered again behind h2; the dispatch called h2 and h1 of the persistent
\* array, in this order, and then h2 and h1 of the one-shot array.
C19_Witness ==
  /\ Greet \in DOMAIN oMessages["A"]
  /\ oMessages["A"][Greet] = <<Hole, "h2", "h1">>
  /\ Len(lastCalls["A"]) = 4
  /\ lastCalls["A"][1].h = "h2" /\ lastCalls["A"][1].kind = "persistent"
  /\ lastCalls["A"][2].h = "h1" /\ lastCalls["A"][2].kind = "persistent"
  /\ lastCalls["A"][3].h = "h2" /\ lastCalls["A"][3].kind = "once"
  /\ lastCalls["A"][4].h = "h1" /\ lastCalls["A"][4].kind = "once"

====
